---- MODULE Spec2Model ----
(***************************************************************************)
(* Model of melonds::error::ErrorScreen (src/src/libretro/error.cpp): the  *)
(* constructor that loads the fonts, the drawing context and the two       *)
(* screen images and draws both screens, the destructor, and Render, which *)
(* combines the two screens and presents them.                             *)
(*                                                                         *)
(* Strings are represented by their lengths, images by their sizes, and    *)
(* every library call the code makes is recorded, in program order, in a   *)
(* call log.  assert is modelled as compiled in (no NDEBUG): a failed      *)
(* assert ends the process at that statement.                              *)
(***************************************************************************)
EXTENDS Integers, Sequences, FiniteSets, TLC

\* ---------------------------------------------------------------- constants
MARGIN == 8
LINE_WIDTH == 56
NDS_SCREEN_WIDTH == 256
NDS_SCREEN_HEIGHT == 192

\* ------------------------------------------------------------------- bounds
\* message lengths 0..MaxLen, and LINE_WIDTH, are tried
MaxLen == 3
\* icon sizes up to IconOver pixels larger than the screen are tried
IconOver == 1
\* at most MaxRenders calls of Render
MaxRenders == 2

Screens == {"top", "bottom"}
Transients == {"titleFont", "bodyFont", "context", "errorIcon", "sorryIcon"}
Handles == Transients \cup {"topScreen", "bottomScreen"}

ScreenImage(s) == IF s = "top" THEN "topScreen" ELSE "bottomScreen"

\* the sizes an embedded icon may decode to
IconWidths  == {NDS_SCREEN_WIDTH - MARGIN}
               \cup ((NDS_SCREEN_WIDTH - 1)..(NDS_SCREEN_WIDTH + IconOver))
IconHeights == {NDS_SCREEN_HEIGHT - MARGIN}
               \cup ((NDS_SCREEN_HEIGHT - 1)..(NDS_SCREEN_HEIGHT + IconOver))
IconSizes == [w : IconWidths, h : IconHeights]

\* the lengths of exception.what() and exception.user_message()
TextLengths == (0..MaxLen) \cup {LINE_WIDTH}

NoIcon == [w |-> 0, h |-> 0]
NoRect == [drawn |-> FALSE, x |-> 0, y |-> 0, w |-> 0, h |-> 0]
NoBody == [done |-> FALSE, n |-> 0, cap |-> 0, zeroed |-> 0, need |-> 0,
           wroteOut |-> FALSE, readOut |-> FALSE, term |-> 0, drawn |-> 0]

VARIABLES
    status,      \* "unconstructed", "constructed", "aborted", "crashed", "destroyed"
    live,        \* the handles currently loaded
    acq,         \* acq[h]: how often handle h was acquired
    rel,         \* rel[h]: how often handle h was released
    misuse,      \* a call used a handle that was null or already released
    log,         \* the calls of the constructor and the destructor, in order
    icon,        \* icon[s]: the size of the icon loaded for screen s
    rect,        \* rect[s]: where the icon of screen s was drawn
    body,        \* body[s]: the wrap buffer and the body text of screen s
    layout,      \* the ScreenLayoutData handed to Render
    renderLog,   \* the calls of the latest Render, in order
    renders,     \* calls of Render so far
    presents,    \* calls of retro::video_refresh so far
    presented    \* what the latest retro::video_refresh was handed

vars == <<status, live, acq, rel, misuse, log, icon, rect, body,
          layout, renderLog, renders, presents, presented>>

\* ------------------------------------------------ the running object state
\* The constructor is a straight line of statements; each statement maps
\* a machine record to the next one, and does nothing once the process
\* has ended (st # "running").
M0 == [st |-> "running", live |-> {}, acq |-> [h \in Handles |-> 0],
       rel |-> [h \in Handles |-> 0], misuse |-> FALSE, log |-> <<>>,
       icon |-> [s \in Screens |-> NoIcon], rect |-> [s \in Screens |-> NoRect],
       body |-> [s \in Screens |-> NoBody]]

Event(op, on, arg) == [op |-> op, on |-> on, arg |-> arg]

\* a library call that reads the handles in uses
Call(m, op, on, arg, uses) ==
    IF m.st # "running" THEN m
    ELSE [m EXCEPT !.log = Append(@, Event(op, on, arg)),
                   !.misuse = @ \/ ~(uses \subseteq m.live)]

\* a load: the handle is live afterwards unless the load returned null
Load(m, op, h, arg, uses, ok) ==
    IF m.st # "running" THEN m
    ELSE LET c == Call(m, op, h, arg, uses)
         IN  IF ok THEN [c EXCEPT !.live = @ \cup {h}, !.acq[h] = @ + 1]
             ELSE c

\* an unload: the handle is released
Unload(m, op, h) ==
    IF m.st # "running" THEN m
    ELSE [m EXCEPT !.log = Append(@, Event(op, h, "")),
                   !.misuse = @ \/ h \notin m.live,
                   !.live = @ \ {h},
                   !.rel[h] = @ + 1]

\* assert(cond): the process ends here when cond is false
AssertThat(m, cond, what) ==
    IF m.st # "running" \/ cond THEN m
    ELSE [m EXCEPT !.st = "aborted",
                   !.log = Append(@, Event("assert", "", what))]

\* ------------------------------------------------------------- the icons
\* the size check on a broken build: an icon as large as the screen passes
IconFitsOrEqual(dim, limit) == dim <= limit

\* assert(icon->height < NDS_SCREEN_HEIGHT); assert(icon->width < NDS_SCREEN_WIDTH)
IconFits(dim, limit) == dim < limit

\* the error icon goes to the bottom-right corner of the top screen
TopIconPos(ic) == [x |-> NDS_SCREEN_WIDTH - ic.w - MARGIN,
                   y |-> NDS_SCREEN_HEIGHT - ic.h - MARGIN]

\* the sorry icon goes to the bottom-left corner of the bottom screen
BottomIconPos(ic) == [x |-> MARGIN,
                      y |-> NDS_SCREEN_HEIGHT - ic.h - MARGIN]

\* pntr_load_image_from_memory and the three asserts on its result
LoadIcon(m, s, h, size, ok) ==
    LET m1 == Load(m, "pntr_load_image_from_memory", h, "", {}, ok)
        m2 == IF m1.st = "running" /\ ok THEN [m1 EXCEPT !.icon[s] = size] ELSE m1
        m3 == AssertThat(m2, h \in m2.live, "icon != nullptr")
        m4 == AssertThat(m3, IconFits(m3.icon[s].h, NDS_SCREEN_HEIGHT), "icon height")
    IN  AssertThat(m4, IconFits(m4.icon[s].w, NDS_SCREEN_WIDTH), "icon width")

\* pntr_draw_image(screen, icon, x, y)
DrawIcon(m, s, h, pos) ==
    LET m1 == Call(m, "pntr_draw_image", s, h, {ScreenImage(s), h})
    IN  IF m.st # "running" THEN m
        ELSE [m1 EXCEPT !.rect[s] = [drawn |-> TRUE, x |-> pos.x, y |-> pos.y,
                                     w |-> m.icon[s].w, h |-> m.icon[s].h]]

\* ------------------------------------------------------------- the titles
\* pntr_measure_text_ex(titleFont, title); pntr_draw_text(screen, titleFont, title, ...)
DrawTitle(m, s, title) ==
    LET m1 == Call(m, "pntr_measure_text_ex", "titleFont", title, {"titleFont"})
    IN  Call(m1, "pntr_draw_text", s, title, {ScreenImage(s), "titleFont"})

\* ---------------------------------------------------------- the body text
\* size_t wrappedTextLength = textLength * 1.5;
WrappedTextLength(n) == (n * 3) \div 2

\* The outcome of one wrap-and-draw of a text of n bytes.
\*   breaks: the line breaks word_wrap_wideglyph inserts (it replaces a space
\*           by a line break, and inserts one only in a full line of wide
\*           glyphs, so at most one per LINE_WIDTH bytes);
\*   wrap:   what word_wrap_wideglyph does when the output and its zero byte
\*           do not fit dst_size: it cuts the output short, or writes it all;
\*   ub:     what an access outside the allocation does: the byte after it
\*           reads as zero, reads as something else, or the process dies.
Fits(n, b) == n + b + 1 <= WrappedTextLength(n)

NoOutcome == [breaks |-> 0, wrap |-> "fits", ub |-> "none"]

BodyOutcomes(n) ==
    {[breaks |-> b, wrap |-> "fits", ub |-> "none"] :
        b \in {c \in 0..(n \div LINE_WIDTH) : Fits(n, c)}}
    \cup
    {o \in [breaks : {c \in 0..(n \div LINE_WIDTH) : ~Fits(n, c)},
            wrap : {"truncate", "overflow"},
            ub : {"none", "zero", "garbage", "crash"}] :
        (o.ub = "none") <=> (o.wrap = "truncate" /\ WrappedTextLength(n) > 0)}

\* word_wrap_wideglyph(dst, dst_size = cap, src, src_len = n, ...) on a
\* zeroed dst: need is the bytes the output and its terminator take, term
\* the index of the first zero byte at or after dst (term >= cap: there is
\* none inside the buffer), wroteOut whether a byte went past the buffer.
WordWrap(cap, n, oc) ==
    LET need == n + oc.breaks + 1
    IN  IF need <= cap
        THEN [need |-> need, wroteOut |-> FALSE, term |-> need - 1]
        ELSE IF oc.wrap = "overflow"
        THEN [need |-> need, wroteOut |-> TRUE, term |-> need - 1]
        ELSE [need |-> need, wroteOut |-> FALSE,
              term |-> IF cap = 0 THEN 0 ELSE cap - 1]

\* strlen, make_unique<char[]>, memset, word_wrap_wideglyph, pntr_draw_text
DrawBody(m, s, n, oc) ==
    LET cap == WrappedTextLength(n)
        w   == WordWrap(cap, n, oc)
        readOut == w.term >= cap
        m1 == Call(m, "memset", s, "wrappedText", {})
        m2 == Call(m1, "word_wrap_wideglyph", s, "wrappedText", {})
        m3 == Call(m2, "pntr_draw_text", s, "wrappedText", {ScreenImage(s), "bodyFont"})
        b  == [done |-> TRUE, n |-> n, cap |-> cap, zeroed |-> cap,
               need |-> w.need, wroteOut |-> w.wroteOut, readOut |-> readOut,
               term |-> w.term,
               drawn |-> IF ~readOut THEN w.term
                         ELSE IF oc.ub = "zero" THEN cap ELSE cap + 1]
    IN  IF m.st # "running" THEN m
        ELSE IF w.wroteOut /\ oc.ub = "crash"
        THEN [m2 EXCEPT !.body[s] = [b EXCEPT !.readOut = FALSE, !.drawn = 0],
                        !.st = "crashed"]
        ELSE [m3 EXCEPT !.body[s] = b,
                        !.st = IF readOut /\ oc.ub = "crash" THEN "crashed" ELSE @]

\* pntr_measure_text_ex(bodyFont, THANK_YOU); pntr_draw_text(..., THANK_YOU, ...)
DrawThanks(m) ==
    LET m1 == Call(m, "pntr_measure_text_ex", "bodyFont", "THANK_YOU", {"bodyFont"})
    IN  Call(m1, "pntr_draw_text", "bottom", "THANK_YOU", {"bottomScreen", "bodyFont"})

\* ---------------------------------------------------------- the two screens
\* the top screen drawn in another order: the title before the icon
DrawTopScreenTitleFirst(m, in) ==
    LET m0 == AssertThat(m, "titleFont" \in m.live, "titleFont != nullptr")
        m1 == DrawTitle(m0, "top", "ERROR_TITLE")
        m2 == LoadIcon(m1, "top", "errorIcon", in.errorIcon, in.null # "errorIcon")
        m3 == Call(m2, "nk_begin", "context", "Error", {"context"})
        m4 == DrawIcon(m3, "top", "errorIcon", TopIconPos(m3.icon["top"]))
        m5 == Call(m4, "nk_end", "context", "", {"context"})
        m6 == Call(m5, "pntr_draw_nuklear", "top", "context", {"topScreen", "context"})
        m7 == Unload(m6, "pntr_unload_image", "errorIcon")
    IN  DrawBody(m7, "top", in.what, in.ocTop)

DrawTopScreen(m, in) ==
    LET m0 == AssertThat(m, "titleFont" \in m.live, "titleFont != nullptr")
        m1 == LoadIcon(m0, "top", "errorIcon", in.errorIcon, in.null # "errorIcon")
        m2 == Call(m1, "nk_begin", "context", "Error", {"context"})
        m3 == DrawIcon(m2, "top", "errorIcon", TopIconPos(m2.icon["top"]))
        m4 == Call(m3, "nk_end", "context", "", {"context"})
        m5 == Call(m4, "pntr_draw_nuklear", "top", "context", {"topScreen", "context"})
        m6 == Unload(m5, "pntr_unload_image", "errorIcon")
        m7 == DrawTitle(m6, "top", "ERROR_TITLE")
    IN  DrawBody(m7, "top", in.what, in.ocTop)

DrawBottomScreen(m, in) ==
    LET m0 == AssertThat(m, "titleFont" \in m.live, "titleFont != nullptr")
        m1 == LoadIcon(m0, "bottom", "sorryIcon", in.sorryIcon, in.null # "sorryIcon")
        m2 == DrawIcon(m1, "bottom", "sorryIcon", BottomIconPos(m1.icon["bottom"]))
        m3 == Unload(m2, "pntr_unload_image", "sorryIcon")
        m4 == DrawTitle(m3, "bottom", "SOLUTION_TITLE")
        m5 == DrawBody(m4, "bottom", in.user, in.ocBottom)
    IN  DrawThanks(m5)

\* ---------------------------------------------------------- the constructor
\* the loads with the check of the body font forgotten
LoadResourcesBodyFontUnchecked(m, in) ==
    LET m1 == Load(m, "pntr_load_font_ttf_from_memory", "titleFont",
                   "TITLE_FONT_HEIGHT", {}, in.null # "titleFont")
        m2 == AssertThat(m1, "titleFont" \in m1.live, "titleFont != nullptr")
        m3 == Load(m2, "pntr_load_font_ttf_from_memory", "bodyFont",
                   "BODY_FONT_HEIGHT", {}, in.null # "bodyFont")
        m5 == Load(m3, "pntr_load_nuklear", "context", "bodyFont", {"bodyFont"},
                   in.null # "context")
        m6 == AssertThat(m5, "context" \in m5.live, "context != nullptr")
        m7 == Load(m6, "pntr_gen_image_color", "topScreen", "top", {},
                   in.null # "topScreen")
        m8 == AssertThat(m7, "topScreen" \in m7.live, "topScreen != nullptr")
        m9 == Load(m8, "pntr_gen_image_color", "bottomScreen", "bottom", {},
                   in.null # "bottomScreen")
    IN  AssertThat(m9, "bottomScreen" \in m9.live, "bottomScreen != nullptr")

\* the fonts, the drawing context and the two screen images, each asserted
LoadResources(m, in) ==
    LET m1 == Load(m, "pntr_load_font_ttf_from_memory", "titleFont",
                   "TITLE_FONT_HEIGHT", {}, in.null # "titleFont")
        m2 == AssertThat(m1, "titleFont" \in m1.live, "titleFont != nullptr")
        m3 == Load(m2, "pntr_load_font_ttf_from_memory", "bodyFont",
                   "BODY_FONT_HEIGHT", {}, in.null # "bodyFont")
        m4 == AssertThat(m3, "bodyFont" \in m3.live, "bodyFont != nullptr")
        m5 == Load(m4, "pntr_load_nuklear", "context", "bodyFont", {"bodyFont"},
                   in.null # "context")
        m6 == AssertThat(m5, "context" \in m5.live, "context != nullptr")
        m7 == Load(m6, "pntr_gen_image_color", "topScreen", "top", {},
                   in.null # "topScreen")
        m8 == AssertThat(m7, "topScreen" \in m7.live, "topScreen != nullptr")
        m9 == Load(m8, "pntr_gen_image_color", "bottomScreen", "bottom", {},
                   in.null # "bottomScreen")
    IN  AssertThat(m9, "bottomScreen" \in m9.live, "bottomScreen != nullptr")

\* the release in the reverse order of acquisition
ReleaseReversed(m) ==
    LET m1 == Unload(m, "pntr_unload_nuklear", "context")
        m2 == Unload(m1, "pntr_unload_font", "bodyFont")
    IN  Unload(m2, "pntr_unload_font", "titleFont")

\* the release with the title font forgotten
ReleaseLeaky(m) ==
    LET m1 == Unload(m, "pntr_unload_nuklear", "context")
    IN  Unload(m1, "pntr_unload_font", "bodyFont")

\* pntr_unload_nuklear(context); pntr_unload_font(titleFont); pntr_unload_font(bodyFont)
ReleaseTransients(m) ==
    LET m1 == Unload(m, "pntr_unload_nuklear", "context")
        m2 == Unload(m1, "pntr_unload_font", "titleFont")
    IN  Unload(m2, "pntr_unload_font", "bodyFont")

\* what the loads are run on: the load that returns null, if any
LoadInputs == [null : {"none", "titleFont", "bodyFont", "context",
                       "topScreen", "bottomScreen"}]

\* what DrawTopScreen is run on: whether the icon load returns null, the
\* size of the embedded error icon, the length of exception.what()
TopInputs ==
    UNION {[null : {"none"}, errorIcon : IconSizes,
            what : {n}, ocTop : BodyOutcomes(n)] : n \in TextLengths}
    \cup [null : {"errorIcon"}, errorIcon : {NoIcon}, what : {0}, ocTop : {NoOutcome}]

\* what DrawBottomScreen is run on, likewise, with exception.user_message()
BottomInputs ==
    UNION {[null : {"none"}, sorryIcon : IconSizes,
            user : {n}, ocBottom : BodyOutcomes(n)] : n \in TextLengths}
    \cup [null : {"sorryIcon"}, sorryIcon : {NoIcon}, user : {0}, ocBottom : {NoOutcome}]

\* the runs of the constructor, statement by statement, over all inputs
ErrorScreenRuns ==
    LET loaded == {LoadResources(M0, in) : in \in LoadInputs}
        top    == {DrawTopScreen(m, in) : m \in loaded, in \in TopInputs}
        bottom == {DrawBottomScreen(m, in) : m \in top, in \in BottomInputs}
    IN  {ReleaseTransients(m) : m \in bottom}

ErrorScreen ==
    /\ status = "unconstructed"
    /\ \E m \in ErrorScreenRuns :
        /\ status' = IF m.st = "running" THEN "constructed" ELSE m.st
        /\ live' = m.live
        /\ acq' = m.acq
        /\ rel' = m.rel
        /\ misuse' = m.misuse
        /\ log' = m.log
        /\ icon' = m.icon
        /\ rect' = m.rect
        /\ body' = m.body
    /\ UNCHANGED <<layout, renderLog, renders, presents, presented>>

\* ----------------------------------------------------------- the destructor
\* pntr_unload_image(topScreen); pntr_unload_image(bottomScreen)
ErrorScreenDtor ==
    /\ status = "constructed"
    /\ LET m0 == [M0 EXCEPT !.live = live, !.acq = acq, !.rel = rel,
                            !.misuse = misuse, !.log = log]
           m1 == Unload(m0, "pntr_unload_image", "topScreen")
           m2 == Unload(m1, "pntr_unload_image", "bottomScreen")
       IN  /\ live' = m2.live
           /\ rel' = m2.rel
           /\ misuse' = m2.misuse
           /\ log' = m2.log
    /\ status' = "destroyed"
    /\ UNCHANGED <<acq, icon, rect, body, layout, renderLog, renders, presents,
                   presented>>

\* ------------------------------------------------------------------ Render
\* One call of Render is a straight line of calls on the layout; each maps
\* a record of the layout, the calls so far and the presentations so far.
R0(l) == [layout |-> l, log |-> <<>>, presents |-> presents, presented |-> presented]

LayoutEvent(r, op, arg) ==
    [r EXCEPT !.log = Append(@, [op |-> op, arg |-> arg, dirty |-> r.layout.dirty])]

\* ScreenLayoutData::Dirty()
Dirty(r) == LayoutEvent(r, "Dirty", "")

\* ScreenLayoutData::Update(renderer): the layout is rebuilt for the
\* renderer and is no longer stale
Update(r, renderer) ==
    [LayoutEvent(r, "Update", renderer) EXCEPT
        !.layout.dirty = FALSE, !.layout.renderer = renderer]

\* ScreenLayoutData::Clear()
Clear(r) ==
    [LayoutEvent(r, "Clear", "") EXCEPT
        !.layout.buffer = [state |-> "clear", top |-> "", bottom |-> ""]]

\* ScreenLayoutData::CombineScreens(top, bottom)
CombineScreens(r, top, bottom) ==
    [LayoutEvent(r, "CombineScreens", "") EXCEPT
        !.layout.buffer = [state |-> "combined", top |-> top, bottom |-> bottom]]

\* the presentation forgotten
PresentSkipped(r) == r

\* retro::video_refresh(screenLayout.Buffer()[0], Width(), Height(), Stride())
Present(r) ==
    [LayoutEvent(r, "video_refresh", "Buffer") EXCEPT
        !.presents = @ + 1, !.presented = r.layout.buffer]

\* the update never made
NeedsUpdateNever(l) == FALSE

\* if (screenLayout.Dirty())
NeedsUpdate(l) == l.dirty

RenderCalls(l) ==
    LET r1 == Dirty(R0(l))
        r2 == IF NeedsUpdate(r1.layout) THEN Update(r1, "Software") ELSE r1
        r3 == Clear(r2)
        r4 == CombineScreens(r3, "topScreen", "bottomScreen")
    IN  Present(r4)

\* Render(screenLayout): the caller's layout may or may not be stale
Render ==
    /\ status = "constructed"
    /\ renders < MaxRenders
    /\ \E stale \in BOOLEAN :
        LET r == RenderCalls([layout EXCEPT !.dirty = stale])
        IN  /\ layout' = r.layout
            /\ renderLog' = r.log
            /\ presents' = r.presents
            /\ presented' = r.presented
    /\ renders' = renders + 1
    /\ UNCHANGED <<status, live, acq, rel, misuse, log, icon, rect, body>>

\* ------------------------------------------------------- the specification
NoBuffer == [state |-> "none", top |-> "", bottom |-> ""]

Init ==
    /\ status = "unconstructed"
    /\ live = M0.live
    /\ acq = M0.acq
    /\ rel = M0.rel
    /\ misuse = M0.misuse
    /\ log = M0.log
    /\ icon = M0.icon
    /\ rect = M0.rect
    /\ body = M0.body
    /\ layout = [dirty |-> TRUE, renderer |-> "None",
                 buffer |-> [state |-> "uninit", top |-> "", bottom |-> ""]]
    /\ renderLog = <<>>
    /\ renders = 0
    /\ presents = 0
    /\ presented = NoBuffer

Next == ErrorScreen \/ Render \/ ErrorScreenDtor

Spec == Init /\ [][Next]_vars

\* ------------------------------------------------------ reading the call log
Positions(op, on, arg) == {i \in DOMAIN log : log[i] = Event(op, on, arg)}
Before(A, B) == \A i \in A, j \in B : i < j
Once(A) == Cardinality(A) = 1
AtMostOnce(A) == Cardinality(A) <= 1

Returned == status \in {"constructed", "destroyed"}

IconOf(s) == IF s = "top" THEN "errorIcon" ELSE "sorryIcon"
TitleOf(s) == IF s = "top" THEN "ERROR_TITLE" ELSE "SOLUTION_TITLE"

Fill(s)      == Positions("pntr_gen_image_color", ScreenImage(s), s)
IconDraw(s)  == Positions("pntr_draw_image", s, IconOf(s))
TitleDraw(s) == Positions("pntr_draw_text", s, TitleOf(s))
BodyDraw(s)  == Positions("pntr_draw_text", s, "wrappedText")
ThanksDraw   == Positions("pntr_draw_text", "bottom", "THANK_YOU")

Released(h) == {i \in DOMAIN log : log[i].on = h
                    /\ log[i].op \in {"pntr_unload_nuklear", "pntr_unload_font",
                                      "pntr_unload_image"}}
Loads == {i \in DOMAIN log : log[i].op \in {"pntr_load_font_ttf_from_memory",
              "pntr_load_nuklear", "pntr_gen_image_color",
              "pntr_load_image_from_memory"}}

RenderOps == [i \in DOMAIN renderLog |-> renderLog[i].op]
RenderAt(op) == {i \in DOMAIN renderLog : renderLog[i].op = op}

\* ------------------------------------------------------------------ claims

\* C1: in every call of Render, a layout that reports Dirty() gets
\* Update(Software) before CombineScreens, a layout that does not gets no
\* Update at all, and CombineScreens never runs on a layout still stale.
C1_UpdateBeforeCombine ==
    renders > 0 =>
        /\ renderLog[1].op = "Dirty"
        /\ IF renderLog[1].dirty
           THEN /\ Once(RenderAt("Update"))
                /\ \A i \in RenderAt("Update") : renderLog[i].arg = "Software"
                /\ Before(RenderAt("Update"), RenderAt("CombineScreens"))
           ELSE RenderAt("Update") = {}
        /\ Once(RenderAt("CombineScreens"))
        /\ \A i \in RenderAt("CombineScreens") : ~renderLog[i].dirty

C1_Witness ==
    /\ renders > 0
    /\ renderLog[1].dirty
    /\ RenderAt("Update") # {}
    /\ RenderAt("CombineScreens") # {}

\* C2: every call of Render presents exactly once, after its Clear and then
\* its CombineScreens(top, bottom), handing over the layout buffer; k calls
\* of Render make k presentations, and nothing else presents.
C2_OnePresentPerRender ==
    /\ presents = renders
    /\ Positions("video_refresh", "", "Buffer") = {}
    /\ \A i \in DOMAIN log : log[i].op # "video_refresh"
    /\ renders = 0 => presented = NoBuffer
    /\ renders > 0 =>
        /\ Once(RenderAt("video_refresh"))
        /\ Once(RenderAt("Clear"))
        /\ Once(RenderAt("CombineScreens"))
        /\ Before(RenderAt("Clear"), RenderAt("CombineScreens"))
        /\ Before(RenderAt("CombineScreens"), RenderAt("video_refresh"))
        /\ RenderAt("video_refresh") = {Len(renderLog)}
        /\ renderLog[Len(renderLog)].arg = "Buffer"
        /\ presented = [state |-> "combined", top |-> "topScreen",
                        bottom |-> "bottomScreen"]
        /\ presented = layout.buffer

C2_Witness ==
    /\ renders = MaxRenders
    /\ presents = MaxRenders
    /\ presented.state = "combined"

\* C3: when the constructor has returned, each of the title font, the body
\* font, the drawing context, the error icon and the sorry icon has been
\* acquired and released exactly once, no call used a handle that was not
\* live, and only the two screen images are live; the destructor releases
\* each of these exactly once.
C3_TransientsReleased ==
    /\ Returned =>
        /\ \A h \in Transients : acq[h] = 1 /\ rel[h] = 1 /\ Once(Released(h))
        /\ ~misuse
        /\ \A h \in {"topScreen", "bottomScreen"} : acq[h] = 1
    /\ status = "constructed" =>
        /\ live = {"topScreen", "bottomScreen"}
        /\ rel["topScreen"] = 0 /\ rel["bottomScreen"] = 0
    /\ status = "destroyed" =>
        /\ live = {}
        /\ rel["topScreen"] = 1 /\ rel["bottomScreen"] = 1

C3_Witness ==
    /\ status = "destroyed"
    /\ \A h \in Handles : acq[h] = 1 /\ rel[h] = 1

\* C4 as claimed: the release order is drawing context, body font, title
\* font (the reverse of the acquisition order).
C4_ReverseOrderClaimed ==
    Returned =>
        /\ Before(Released("context"), Released("bodyFont"))
        /\ Before(Released("bodyFont"), Released("titleFont"))

\* C4 as amended: the drawing context, acquired last, is released first; the
\* two fonts are then released in the order of their acquisition, the title
\* font before the body font.
C4_ContextThenFontsInOrder ==
    Returned =>
        /\ Before(Positions("pntr_load_font_ttf_from_memory", "titleFont",
                            "TITLE_FONT_HEIGHT"),
                  Positions("pntr_load_font_ttf_from_memory", "bodyFont",
                            "BODY_FONT_HEIGHT"))
        /\ Before(Positions("pntr_load_font_ttf_from_memory", "bodyFont",
                            "BODY_FONT_HEIGHT"),
                  Positions("pntr_load_nuklear", "context", "bodyFont"))
        /\ Once(Released("context")) /\ Once(Released("titleFont"))
        /\ Once(Released("bodyFont"))
        /\ Before(Released("context"), Released("titleFont"))
        /\ Before(Released("titleFont"), Released("bodyFont"))

C4_Witness ==
    /\ status = "constructed"
    /\ Released("context") # {}
    /\ Released("titleFont") # {}
    /\ Released("bodyFont") # {}

\* C5: a load that returns null ends the process at the assert that follows
\* it: the assert is the last call of the process, no call ever used a
\* missing handle, and the constructor does not return.
C5_NullLoadIsFatal ==
    /\ \A i \in Loads :
        acq[log[i].on] = 0 =>
            /\ status = "aborted"
            /\ Len(log) = i + 1
            /\ log[i + 1].op = "assert"
    /\ ~misuse

C5_Witness ==
    /\ status = "aborted"
    /\ acq["sorryIcon"] = 0
    /\ \E i \in Loads : log[i].on = "sorryIcon"
    /\ BodyDraw("top") # {}

\* C6: on each screen the fill, the icon, the title and the body text are
\* drawn once each and in that order, with the acknowledgment last on the
\* bottom screen; the top screen's icon, title and body precede the bottom
\* screen's; and Render runs only when all of them are drawn.
C6_DrawOrder ==
    /\ \A s \in Screens :
        /\ AtMostOnce(Fill(s)) /\ AtMostOnce(IconDraw(s))
        /\ AtMostOnce(TitleDraw(s)) /\ AtMostOnce(BodyDraw(s))
        /\ IconDraw(s) # {} => Fill(s) # {} /\ Before(Fill(s), IconDraw(s))
        /\ TitleDraw(s) # {} => IconDraw(s) # {} /\ Before(IconDraw(s), TitleDraw(s))
        /\ BodyDraw(s) # {} => TitleDraw(s) # {} /\ Before(TitleDraw(s), BodyDraw(s))
    /\ AtMostOnce(ThanksDraw)
    /\ ThanksDraw # {} => BodyDraw("bottom") # {} /\ Before(BodyDraw("bottom"), ThanksDraw)
    /\ IconDraw("bottom") # {} =>
        /\ BodyDraw("top") # {}
        /\ Before(IconDraw("top") \cup TitleDraw("top") \cup BodyDraw("top"),
                  IconDraw("bottom") \cup TitleDraw("bottom") \cup BodyDraw("bottom"))
    /\ (Returned \/ renders > 0) =>
        /\ \A s \in Screens : Once(BodyDraw(s))
        /\ Once(ThanksDraw)

C6_Witness ==
    /\ renders > 0
    /\ ThanksDraw # {}
    /\ BodyDraw("top") # {}

\* C7: a loaded icon is drawn exactly when its width is below the screen's
\* width and its height below the screen's height; otherwise the process
\* ends at the size assert and the icon is not drawn.  Both screens.
C7_IconSizeCheck ==
    \A s \in Screens :
        icon[s] # NoIcon =>
            IF icon[s].w < NDS_SCREEN_WIDTH /\ icon[s].h < NDS_SCREEN_HEIGHT
            THEN /\ rect[s].drawn
                 /\ rect[s].w = icon[s].w /\ rect[s].h = icon[s].h
            ELSE /\ ~rect[s].drawn
                 /\ IconDraw(s) = {}
                 /\ status = "aborted"
                 /\ log[Len(log)].op = "assert"
                 /\ log[Len(log)].arg \in {"icon height", "icon width"}

C7_Witness ==
    /\ icon["top"] = [w |-> NDS_SCREEN_WIDTH - 1, h |-> NDS_SCREEN_HEIGHT - 1]
    /\ rect["top"].drawn
    /\ icon["bottom"].w = NDS_SCREEN_WIDTH
    /\ status = "aborted"

\* C8 as claimed: for a message of n bytes the wrap buffer has floor(1.5 n)
\* bytes, all zero before the wrap, and the wrapped text with its zero byte
\* fits in it, so the wrap writes nothing past the buffer and the text drawn
\* ends inside it.
C8_WrapBufferFits ==
    \A s \in Screens :
        body[s].done =>
            /\ 2 * body[s].cap <= 3 * body[s].n
            /\ 3 * body[s].n < 2 * body[s].cap + 2
            /\ body[s].zeroed = body[s].cap
            /\ body[s].need <= body[s].cap
            /\ ~body[s].wroteOut
            /\ body[s].term < body[s].cap

\* C9 as claimed: an empty message is drawn as the empty string, the pass
\* goes through, and no byte outside the wrap buffer is read or written.
C9_EmptyMessage ==
    \A s \in Screens :
        (body[s].done /\ body[s].n = 0) =>
            /\ body[s].drawn = 0
            /\ ~body[s].readOut
            /\ ~body[s].wroteOut
            /\ status # "crashed"

\* C10 as claimed: every icon that passes the size check is drawn at the
\* stated corner position and its rectangle lies inside the screen.
C10_IconInsideScreen ==
    \A s \in Screens :
        rect[s].drawn =>
            /\ rect[s].x = IF s = "top" THEN NDS_SCREEN_WIDTH - rect[s].w - MARGIN
                           ELSE MARGIN
            /\ rect[s].y = NDS_SCREEN_HEIGHT - rect[s].h - MARGIN
            /\ rect[s].x >= 0 /\ rect[s].y >= 0
            /\ rect[s].x + rect[s].w <= NDS_SCREEN_WIDTH
            /\ rect[s].y + rect[s].h <= NDS_SCREEN_HEIGHT

====
